---- MODULE Spec2Model ----
(***************************************************************************)
(* Model of the vault-unsealer daemon (src/unsealer.go): the key cache and *)
(* its refresh, the per-vault in-flight guard, the unseal protocol with    *)
(* its outer retry loop, the sweep scheduler and the shutdown drain.       *)
(***************************************************************************)
EXTENDS Integers, Sequences, FiniteSets, TLC

\* ------------------------------------------------------------------ bounds
NumTargets == 2      \* number of configured vault addresses (len(u.vaults))
MaxSweeps == 2       \* sweeps modelled: the startup sweep and the ticker sweeps
MaxVersion == 2      \* versions of the secrets held by the secrets manager
MaxRefresh == 2      \* hourly refreshes modelled

\* --------------------------------------------------------------- constants
NumKeys == 4         \* for i := 1; i <= 4; i++
MaxAttempts == 3     \* for i := 0; i < 3; i++
InitialBackoff == 1  \* backoff := time.Second (in seconds)

Targets == 1..NumTargets
TaskIds == (1..MaxSweeps) \X Targets

\* Status codes a health probe can answer; 0 stands for a transport error
\* (client.Do returned err), 500 for any code the switch does not name.
TransportError == 0
HealthOutcomes == {200, 429, 472, 473, 503, 500, TransportError}

\* The vaults are outside the program.  A vault in mode "any" answers a probe
\* or a submission with any outcome; a "healthy" one is unsealed and answers
\* 200; a "flaky" one is never sealed, and is unsealed, unhealthy or
\* unreachable; a "sealed" one stays sealed whatever keys it is given; an
\* "unsealing" one is reachable and well-behaved, sealed or not at each probe
\* and after each key.
VaultModes == {"any", "healthy", "flaky", "sealed", "unsealing"}

HealthAnswers(m) ==
    CASE m = "any" -> HealthOutcomes
      [] m = "healthy" -> {200}
      [] m = "flaky" -> {200, 500, TransportError}
      [] m = "sealed" -> {503}
      [] m = "unsealing" -> {200, 503}

AcceptableOnly200(code) == code = 200

\* case 200, 429, 472, 473
Acceptable(code) == code \in {200, 429, 472, 473}

SealedOrOther(code) == code \in {503, 500}

\* case 503
Sealed(code) == code = 503

\* What a PUT /v1/sys/unseal can produce: a transport error, a body that does
\* not decode, or a JSON object whose "sealed" field is true, false, absent
\* or not a boolean.
SubmitOutcomes == {"transport", "garbage", "sealed:true", "sealed:false",
                   "nofield", "sealed:string"}

\* err != nil from client.Do
SubmitTransportErr(r) == r = "transport"

\* decodeErr != nil
SubmitDecodeErr(r) == r = "garbage"

SealedIsBoolLoose(r) == r \in {"sealed:true", "sealed:false", "nofield", "sealed:string"}

\* sealed, ok := result["sealed"].(bool)
SealedIsBool(r) == r \in {"sealed:true", "sealed:false"}

SealedValue(r) == r = "sealed:true"

SubmitAnswers(m) ==
    CASE m = "sealed" -> {"sealed:true"}
      [] m = "unsealing" -> {"sealed:true", "sealed:false"}
      [] OTHER -> SubmitOutcomes

\* if sealed, ok := result["sealed"].(bool); ok && !sealed
Unsealed(r) ==
    ~SubmitTransportErr(r) /\ ~SubmitDecodeErr(r) /\ SealedIsBool(r) /\ ~SealedValue(r)

\* ------------------------------------------------------- secrets manager
\* The value the secrets manager holds for key i at version v; "" is 0.
EmptyValue == 0
SecretValue(v, i) == 10 * v + i

\* Errors of Secrets().Get, by their message.
GetErrors == {"unauthorized", "timeout"}

\* strings.Contains(err.Error(), "unauthorized") || strings.Contains(err.Error(), "auth")
IsAuthError(e) == e = "unauthorized"


\* ------------------------------------------------------------------ state
VARIABLES
    mainpc,      \* position of main: init, fetch, loop, wait, shutdown, exited, fatal
    missingId,   \* first i with UNSEAL_KEY_i unset in the environment (0: none)
    mode,        \* how each vault answers during this execution (see VaultModes)
    version,     \* version of the secrets the secrets manager holds now
    keys,        \* u.keys
    installed,   \* history: every value u.keys was given by a completed refresh
    fetch,       \* the doFetchKeys call in progress (locals and position)
    refreshpc,   \* keyRefreshLoop: off, sleep, run, stopped
    nRefresh,    \* hourly refreshes started so far
    refreshLog,  \* what keyRefreshLoop logged last: none, failed, refreshed, panic
    bw,          \* u.bw: "nil" or a "client"
    working,     \* u.working (the set of keys of the sync.Map)
    wg,          \* u.wg (the WaitGroup counter)
    attempts,    \* u.attempts
    successes,   \* u.successes
    failures,    \* u.failures
    cancelled,   \* ctx.Done() is closed
    sweeps,      \* calls of unsealAll so far
    task,        \* the goroutine of each (sweep, vault): locals and position
    serverUp,    \* the health server is serving
    readyN,      \* len(u.keys) read by the last /ready request (-1: none yet)
    drained      \* history: the sweeps with tasks still running when shutdown began

vars == <<mainpc, missingId, mode, version, keys, installed, fetch, refreshpc, nRefresh,
          refreshLog, bw,
          working, wg, attempts, successes, failures, cancelled, sweeps, task,
          serverUp, readyN, drained>>

mainVars == <<mainpc, serverUp, drained, cancelled, sweeps>>
counterVars == <<attempts, successes, failures>>
fetchVars == <<keys, installed, fetch>>
envVars == <<missingId, mode, version>>

NoCode == -1

\* A sweep goroutine before it is started (and its locals once it has ended).
IdleTask ==
    [pc |-> "idle", i |-> 0, backoff |-> 0, snap |-> <<>>, k |-> 0,
     res |-> "none", code |-> NoCode, probes |-> 0, sent |-> <<>>,
     waits |-> <<>>, dAtt |-> 0, dSuc |-> 0, dFail |-> 0, aAtt |-> 0,
     aSuc |-> 0, scen |-> TRUE, rcode |-> NoCode, ans |-> "none"]

IdleFetch ==
    [pc |-> "idle", i |-> 0, allow |-> FALSE, local |-> <<>>, pre |-> <<>>,
     relogins |-> 0, passes |-> 0, err |-> "none"]

\* doFetchKeys(true) is entered: keys := make([]string, 0, 4); i := 1
StartFetch(ukeys) ==
    [pc |-> "get", i |-> 1, allow |-> TRUE, local |-> <<>>, pre |-> ukeys,
     relogins |-> 0, passes |-> 1, err |-> "none"]

\* The state after main has built the Unsealer (src/unsealer.go:71-87), apart
\* from the behaviour of the vaults.
InitProgram ==
    /\ mainpc = "init"
    /\ missingId \in 0..NumKeys
    /\ version = 1
    /\ keys = <<>>
    /\ installed = {}
    /\ fetch = IdleFetch
    /\ refreshpc = "off"
    /\ nRefresh = 0
    /\ refreshLog = "none"
    /\ bw = "nil"
    /\ working = {}
    /\ wg = 0
    /\ attempts = 0
    /\ successes = 0
    /\ failures = 0
    /\ cancelled = FALSE
    /\ sweeps = 0
    /\ task = [x \in TaskIds |-> IdleTask]
    /\ serverUp = FALSE
    /\ readyN = -1
    /\ drained = 0

\* Every vault may answer anything at any time.
Init ==
    /\ InitProgram
    /\ mode = [t \in Targets |-> "any"]

\* One vault (the first, the vaults being alike) may answer anything; the
\* others are unsealed and answer 200.
InitRun ==
    /\ InitProgram
    /\ mode = [t \in Targets |-> IF t = 1 THEN "any" ELSE "healthy"]

\* One vault (the first) stays sealed; the others are unsealed and answer 200.
InitRefresh ==
    /\ InitProgram
    /\ mode = [t \in Targets |-> IF t = 1 THEN "sealed" ELSE "healthy"]

\* One vault (the first) is sealed or not at each request; the others stay
\* sealed.
InitCount ==
    /\ InitProgram
    /\ mode = [t \in Targets |-> IF t = 1 THEN "unsealing" ELSE "sealed"]

\* No vault is sealed: each is unsealed, unhealthy or unreachable at each probe.
InitSweep ==
    /\ InitProgram
    /\ mode = [t \in Targets |-> "flaky"]

\* The process has not exited: its goroutines can still take steps.
Running == mainpc \notin {"exited", "fatal"}

\* ------------------------------------------------------- key cache refresh
\* How a call of initBitwardenClient can end: nil, the error of
\* sdk.NewBitwardenClient, or the error of AccessTokenLogin.
InitOutcomes == {"ok", "create-failed", "login-failed"}

\* u.bw after initBitwardenClient: "u.bw, err = sdk.NewBitwardenClient(...)"
\* assigns the field before err is looked at, and the constructor returns a
\* nil client with its error.  (A constructor that returned a usable client
\* with its error would leave the same state as "login-failed".)
ClientAfter(r) == IF r = "create-failed" THEN "nil" ELSE "client"

AppendKeyInPlace(ukeys, local, v) ==
    [cache |-> Append(local, v), local |-> Append(local, v)]

\* keys = append(keys, secret.Value): the local slice grows, u.keys is not touched
AppendKey(ukeys, local, v) ==
    [cache |-> ukeys, local |-> Append(local, v)]

StoreKeysJoined(ukeys, local) == ukeys \o local

\* u.keysMu.Lock(); u.keys = keys; u.keysMu.Unlock()
StoreKeys(ukeys, local) == local

KeysOnErrorCleared(ukeys, local) == <<>>

\* every "return fmt.Errorf(...)" of doFetchKeys: u.keys is left as it is
KeysOnError(ukeys, local) == ukeys

RestartAllowSame(allow) == allow

\* return u.doFetchKeys(false): the allowRelogin of the second pass
RestartAllow(allow) == FALSE

\* doFetchKeys returns an error (e: what went wrong)
FetchFail(e) ==
    /\ fetch' = [fetch EXCEPT !.pc = "failed", !.err = e]
    /\ keys' = KeysOnError(keys, fetch.local)
    /\ UNCHANGED installed

\* One iteration of the loop of doFetchKeys: the identifier of key i is looked
\* up, its value requested, and the answer handled.
FetchGet ==
    /\ Running
    /\ fetch.pc = "get"
    /\ IF missingId = fetch.i
       THEN FetchFail("unset")
       ELSE IF bw = "nil"
       THEN \* u.bw.Secrets() on a nil interface value: a run-time panic
            /\ fetch' = [fetch EXCEPT !.pc = "panicked", !.err = "nil client"]
            /\ UNCHANGED <<keys, installed>>
       ELSE \/ \E e \in GetErrors :
                 IF fetch.allow /\ IsAuthError(e)
                 THEN /\ fetch' = [fetch EXCEPT !.pc = "relogin", !.err = e]
                      /\ UNCHANGED <<keys, installed>>
                 ELSE FetchFail(e)
            \/ \E v \in {EmptyValue, SecretValue(version, fetch.i)} :
                 IF v = EmptyValue
                 THEN FetchFail("empty")
                 ELSE LET r == AppendKey(keys, fetch.local, v)
                      IN /\ keys' = r.cache
                         /\ fetch' = [fetch EXCEPT
                                !.local = r.local,
                                !.i = fetch.i + 1,
                                !.pc = IF fetch.i = NumKeys THEN "store" ELSE "get"]
                         /\ UNCHANGED installed
    /\ UNCHANGED <<mainVars, envVars, refreshpc, nRefresh, refreshLog, bw, working, wg,
                   counterVars, task, readyN>>

\* u.initBitwardenClient() after an authentication error, then
\* return u.doFetchKeys(false)
FetchRelogin ==
    /\ Running
    /\ fetch.pc = "relogin"
    /\ \E r \in InitOutcomes :
         /\ bw' = ClientAfter(r)
         /\ IF r = "ok"
            THEN /\ fetch' = [fetch EXCEPT !.pc = "get", !.i = 1,
                                           !.allow = RestartAllow(fetch.allow),
                                           !.local = <<>>, !.err = "none",
                                           !.relogins = fetch.relogins + 1,
                                           !.passes = fetch.passes + 1]
                 /\ UNCHANGED <<keys, installed>>
            ELSE /\ fetch' = [fetch EXCEPT !.pc = "failed", !.err = "relogin",
                                           !.relogins = fetch.relogins + 1]
                 /\ keys' = KeysOnError(keys, fetch.local)
                 /\ UNCHANGED installed
    /\ UNCHANGED <<mainVars, envVars, refreshpc, nRefresh, refreshLog, working, wg,
                   counterVars, task, readyN>>

\* The loop is over with all keys fetched: the cache is replaced.
FetchStore ==
    /\ Running
    /\ fetch.pc = "store"
    /\ keys' = StoreKeys(keys, fetch.local)
    /\ installed' = installed \cup {fetch.local}
    /\ fetch' = [fetch EXCEPT !.pc = "ok"]
    /\ UNCHANGED <<mainVars, envVars, refreshpc, nRefresh, refreshLog, bw, working, wg,
                   counterVars, task, readyN>>

\* select in keyRefreshLoop: case <-time.After(time.Hour): u.fetchKeys()
RefreshTick ==
    /\ Running
    /\ refreshpc = "sleep"
    /\ ~cancelled
    /\ nRefresh < MaxRefresh
    /\ refreshpc' = "run"
    /\ nRefresh' = nRefresh + 1
    /\ fetch' = StartFetch(keys)
    /\ UNCHANGED <<mainVars, envVars, keys, installed, refreshLog, bw, working, wg,
                   counterVars, task, readyN>>

\* if err := u.fetchKeys(); err != nil { Error("key refresh failed") }
\* else { Info("keys refreshed") }
RefreshLogOf(f) == IF f.pc = "failed" THEN "failed" ELSE "refreshed"

\* fetchKeys has returned to keyRefreshLoop: the result is logged, the loop goes on
RefreshDone ==
    /\ Running
    /\ refreshpc = "run"
    /\ fetch.pc \in {"ok", "failed"}
    /\ refreshpc' = "sleep"
    /\ refreshLog' = RefreshLogOf(fetch)
    /\ fetch' = IdleFetch
    /\ UNCHANGED <<mainVars, envVars, keys, installed, nRefresh, bw, working, wg,
                   counterVars, task, readyN>>

\* fetchKeys panicked under keyRefreshLoop: the deferred recover() of lines
\* 203-207 logs the panic and keyRefreshLoop returns; the for loop is gone.
RefreshPanic ==
    /\ Running
    /\ refreshpc = "run"
    /\ fetch.pc = "panicked"
    /\ refreshpc' = "dead"
    /\ refreshLog' = "panic"
    /\ fetch' = IdleFetch
    /\ UNCHANGED <<mainVars, envVars, keys, installed, nRefresh, bw, working, wg,
                   counterVars, task, readyN>>

\* select in keyRefreshLoop: case <-ctx.Done(): return
RefreshStop ==
    /\ Running
    /\ refreshpc = "sleep"
    /\ cancelled
    /\ refreshpc' = "stopped"
    /\ UNCHANGED <<mainVars, envVars, fetchVars, nRefresh, refreshLog, bw, working, wg,
                   counterVars, task, readyN>>

\* The secrets manager's values are replaced by someone else (a rotation).
\* Only doFetchKeys reads them, so a rotation between two fetches is the same
\* as one right before the first request of the later fetch; rotations are
\* followed from the first refresh on.
Rotate ==
    /\ Running
    /\ mainpc = "loop"
    /\ fetch.pc = "get"
    /\ version < MaxVersion
    /\ version' = version + 1
    /\ UNCHANGED <<mainVars, missingId, mode, fetchVars, refreshpc, nRefresh, refreshLog, bw,
                   working, wg, counterVars, task, readyN>>


\* ------------------------------------------------------------ sweep tasks
LoadOrStoreBlind(w, addr) == [exists |-> FALSE, map |-> w \cup {addr}]

LoadOrStoreAnyKey(w, addr) == [exists |-> w # {}, map |-> w \cup {addr}]

\* _, exists := u.working.LoadOrStore(addr, true)
LoadOrStore(w, addr) == [exists |-> addr \in w, map |-> w \cup {addr}]

DeleteUnlessPanic(w, addr, res) == IF res = "panic" THEN w ELSE w \ {addr}

\* defer u.working.Delete(addr), which runs however the function is left
Delete(w, addr, res) == w \ {addr}

NextBackoffSame(b) == b

\* backoff *= 2
NextBackoff(b) == b * 2

FailIncEach(i) == 1

\* what a failed attempt i adds to u.failures: nothing while i < 2 (the loop
\* goes on to the backoff), 1 once the loop is over
FailInc(i) == IF i < MaxAttempts - 1 THEN 0 ELSE 1

AttemptIncFirst(i) == IF i = 0 THEN 1 ELSE 0

AttemptIncNone(i) == 0

\* atomic.AddInt64(&u.attempts, 1) in unseal, whichever outer attempt i calls it
AttemptInc(i) == 1

ReprobesFromFirst(k) == TRUE

\* if i > 0 { ...health probe before the key is submitted... }
Reprobes(k) == k > 0

KeyAtFirst(snap, k) == snap[1]

KeyAtCache(snap, k) == keys[k + 1]

\* for i, key := range keys: the key at index i (0-based) of the snapshot
KeyAt(snap, k) == snap[k + 1]

\* The positions of a task between its LoadOrStore and its Delete.
GuardedPcs == {"health", "readkeys", "reprobe", "submit", "backoff", "release"}

\* The positions inside unseal, where a fault can occur.
UnsealPcs == {"health", "readkeys", "reprobe", "submit"}

taskFrame == <<mainVars, envVars, fetchVars, refreshpc, nRefresh, refreshLog, bw, readyN>>

\* unseal returned an error in outer attempt i of task x: either the loop goes
\* to its backoff select, or it is over and the failure is counted.
AttemptFailed(x, t) ==
    /\ failures' = failures + FailInc(t.i)
    /\ task' = [task EXCEPT ![x] =
          IF t.i < MaxAttempts - 1
          THEN [t EXCEPT !.pc = "backoff", !.dFail = t.dFail + FailInc(t.i)]
          ELSE [t EXCEPT !.pc = "release", !.res = "fail",
                         !.dFail = t.dFail + FailInc(t.i)]]

MapOnSkipDeleted(w, addr) == w \ {addr}

\* if _, exists := ...; exists { return }: the return comes before
\* defer u.working.Delete(addr) is reached, so the map is left as it is
MapOnSkip(w, addr) == w

\* The goroutine starts unsealWithRetry: the guard is tried.
Acquire(x) ==
    /\ Running
    /\ task[x].pc = "acquire"
    /\ LET r == LoadOrStore(working, x[2])
       IN IF r.exists
          THEN /\ task' = [task EXCEPT ![x] = [@ EXCEPT !.pc = "wgdone", !.res = "skip"]]
               /\ working' = MapOnSkip(working, x[2])
          ELSE /\ task' = [task EXCEPT ![x] =
                      [@ EXCEPT !.pc = "health", !.i = 0, !.backoff = InitialBackoff]]
               /\ working' = r.map
    /\ UNCHANGED <<taskFrame, wg, counterVars>>

\* unseal: the first health probe of an attempt and the switch on its status.
Health(x) ==
    /\ Running
    /\ task[x].pc = "health"
    /\ \E c \in HealthAnswers(mode[x[2]]) :
         LET t == [task[x] EXCEPT !.code = c, !.probes = 1,
                                  !.scen = task[x].scen /\ Sealed(c)]
         IN IF c # TransportError /\ Acceptable(c)
            THEN /\ task' = [task EXCEPT ![x] = [t EXCEPT !.pc = "release", !.res = "accept"]]
                 /\ UNCHANGED counterVars
            ELSE IF c # TransportError /\ Sealed(c)
            THEN /\ attempts' = attempts + AttemptInc(t.i)
                 /\ task' = [task EXCEPT ![x] =
                        [t EXCEPT !.pc = "readkeys",
                                  !.dAtt = t.dAtt + AttemptInc(t.i),
                                  !.aAtt = t.aAtt + AttemptInc(t.i)]]
                 /\ UNCHANGED <<successes, failures>>
            ELSE /\ AttemptFailed(x, t)
                 /\ UNCHANGED <<attempts, successes>>
    /\ UNCHANGED <<taskFrame, working, wg>>

\* u.keysMu.RLock(); keys := u.keys; u.keysMu.RUnlock(), and the loop is entered
ReadKeys(x) ==
    /\ Running
    /\ task[x].pc = "readkeys"
    /\ LET t == [task[x] EXCEPT !.snap = keys, !.k = 0]
       IN IF Len(keys) = 0
          THEN AttemptFailed(x, t)
          ELSE /\ task' = [task EXCEPT ![x] =
                      [t EXCEPT !.pc = IF Reprobes(0) THEN "reprobe" ELSE "submit"]]
               /\ UNCHANGED failures
    /\ UNCHANGED <<taskFrame, working, wg, attempts, successes>>

\* The health probe before key k (k > 0) is submitted.
Reprobe(x) ==
    /\ Running
    /\ task[x].pc = "reprobe"
    /\ \E c \in HealthAnswers(mode[x[2]]) :
         LET t == [task[x] EXCEPT !.probes = task[x].probes + 1,
                                  !.scen = task[x].scen /\ Sealed(c),
                                  !.rcode = c, !.ans = "none"]
         IN IF c # TransportError /\ Acceptable(c)
            THEN /\ successes' = successes + 1
                 /\ task' = [task EXCEPT ![x] =
                        [t EXCEPT !.pc = "release", !.res = "quorum",
                                  !.dSuc = t.dSuc + 1, !.aSuc = t.aSuc + 1]]
            ELSE /\ task' = [task EXCEPT ![x] = [t EXCEPT !.pc = "submit"]]
                 /\ UNCHANGED successes
    /\ UNCHANGED <<taskFrame, working, wg, attempts, failures>>

\* Key k of the snapshot is submitted and the answer handled.
Submit(x) ==
    /\ Running
    /\ task[x].pc = "submit"
    /\ \E r \in SubmitAnswers(mode[x[2]]) :
         LET t == [task[x] EXCEPT
                      !.sent = Append(task[x].sent, KeyAt(task[x].snap, task[x].k)),
                      !.scen = task[x].scen /\ r = "sealed:true",
                      !.rcode = NoCode, !.ans = r]
         IN IF Unsealed(r)
            THEN /\ successes' = successes + 1
                 /\ task' = [task EXCEPT ![x] =
                        [t EXCEPT !.pc = "release", !.res = "unsealed",
                                  !.dSuc = t.dSuc + 1, !.aSuc = t.aSuc + 1]]
                 /\ UNCHANGED failures
            ELSE IF t.k + 1 < Len(t.snap)
            THEN /\ task' = [task EXCEPT ![x] =
                        [t EXCEPT !.k = t.k + 1,
                                  !.pc = IF Reprobes(t.k + 1) THEN "reprobe" ELSE "submit"]]
                 /\ UNCHANGED <<successes, failures>>
            ELSE /\ AttemptFailed(x, [t EXCEPT !.k = t.k + 1])
                 /\ UNCHANGED successes
    /\ UNCHANGED <<taskFrame, working, wg, attempts>>

TimerFirstAnyway(done) == TRUE

\* select { case <-ctx.Done(): ... case <-time.After(backoff): ... }: the timer
\* case is the one taken only when the timer fires before ctx.Done() is closed
TimerFirst(done) == ~done

\* select: case <-time.After(backoff): backoff *= 2, and the next attempt starts
BackoffTimer(x) ==
    /\ Running
    /\ task[x].pc = "backoff"
    /\ TimerFirst(cancelled)
    /\ task' = [task EXCEPT ![x] =
          [@ EXCEPT !.pc = "health", !.i = @ + 1,
                    !.waits = Append(@, task[x].backoff),
                    !.backoff = NextBackoff(@),
                    !.snap = <<>>, !.k = 0, !.code = NoCode, !.probes = 0,
                    !.sent = <<>>, !.aAtt = 0, !.aSuc = 0,
                    !.rcode = NoCode, !.ans = "none"]]
    /\ UNCHANGED <<taskFrame, working, wg, counterVars>>

DoneFirstNever(done) == FALSE

\* the same select: the ctx.Done() case is the one taken once ctx.Done() is
\* closed with the timer not yet fired
DoneFirst(done) == done

\* select: case <-ctx.Done(): return
BackoffCancel(x) ==
    /\ Running
    /\ task[x].pc = "backoff"
    /\ DoneFirst(cancelled)
    /\ task' = [task EXCEPT ![x] = [@ EXCEPT !.pc = "release", !.res = "cancel"]]
    /\ UNCHANGED <<taskFrame, working, wg, counterVars>>

\* A fault (panic) inside unseal: its locals are gone and the deferred
\* functions run next.
Panic(x) ==
    /\ Running
    /\ task[x].pc \in UnsealPcs
    /\ task' = [task EXCEPT ![x] =
          [IdleTask EXCEPT !.pc = "release", !.res = "panic",
                           !.dAtt = task[x].dAtt, !.dSuc = task[x].dSuc,
                           !.dFail = task[x].dFail]]
    /\ UNCHANGED <<taskFrame, working, wg, counterVars>>

\* The deferred u.working.Delete(addr); unsealWithRetry's locals are gone.
Release(x) ==
    /\ Running
    /\ task[x].pc = "release"
    /\ working' = Delete(working, x[2], task[x].res)
    /\ task' = [task EXCEPT ![x] =
          [IdleTask EXCEPT !.pc = IF task[x].res = "panic" THEN "recover" ELSE "wgdone",
                           !.res = task[x].res, !.dSuc = task[x].dSuc,
                           !.dFail = task[x].dFail]]
    /\ UNCHANGED <<taskFrame, wg, counterVars>>

RecoverIncNone(panicked) == 0

\* if r := recover(); r != nil { ...; atomic.AddInt64(&u.failures, 1) }
RecoverInc(panicked) == IF panicked THEN 1 ELSE 0

\* The deferred recover() found a panic: atomic.AddInt64(&u.failures, 1)
Recover(x) ==
    /\ Running
    /\ task[x].pc = "recover"
    /\ failures' = failures + RecoverInc(task[x].res = "panic")
    /\ task' = [task EXCEPT ![x] =
          [@ EXCEPT !.pc = "wgdone", !.dFail = @ + RecoverInc(task[x].res = "panic")]]
    /\ UNCHANGED <<taskFrame, working, wg, attempts, successes>>

\* The deferred u.wg.Done() of the goroutine started by unsealAll.
WgDone(x) ==
    /\ Running
    /\ task[x].pc = "wgdone"
    /\ wg' = wg - 1
    /\ task' = [task EXCEPT ![x] = [IdleTask EXCEPT !.pc = "done"]]
    /\ UNCHANGED <<taskFrame, working, counterVars>>


\* ------------------------------------------------------------------- main
WaitDoneNoWait(n) == TRUE

\* u.wg.Wait() returns once the counter is zero
WaitDone(n) == n = 0

\* unsealAll: for every vault, u.wg.Add(1) and a goroutine running unsealWithRetry
unsealAll(s) ==
    /\ wg' = wg + NumTargets
    /\ task' = [x \in TaskIds |->
                  IF x[1] = s THEN [task[x] EXCEPT !.pc = "acquire"] ELSE task[x]]

\* u.initBitwardenClient() in main, then u.fetchKeys() is entered
MainInitClient ==
    /\ mainpc = "init"
    /\ \E r \in InitOutcomes :
         /\ bw' = ClientAfter(r)
         /\ IF r = "ok"
            THEN /\ mainpc' = "fetch"
                 /\ fetch' = StartFetch(keys)
            ELSE /\ mainpc' = "fatal"
                 /\ UNCHANGED fetch
    /\ UNCHANGED <<serverUp, drained, cancelled, sweeps, envVars, keys, installed,
                   refreshpc, nRefresh, refreshLog, working, wg, counterVars, task,
                   readyN>>

\* if err := u.fetchKeys(); err != nil { os.Exit(1) }
MainFetchFailed ==
    /\ mainpc = "fetch"
    /\ fetch.pc = "failed"
    /\ mainpc' = "fatal"
    /\ fetch' = IdleFetch
    /\ UNCHANGED <<serverUp, drained, cancelled, sweeps, envVars, keys, installed,
                   refreshpc, nRefresh, refreshLog, bw, working, wg, counterVars, task, readyN>>

FetchOkOrNot(f) == f.pc \in {"ok", "failed"}

\* if err := u.fetchKeys(); err != nil { ...os.Exit(1) }: main goes on only
\* when fetchKeys returned nil
FetchOk(f) == f.pc = "ok"

\* The first fetch succeeded: the health server and the key refresh loop are
\* started, then the startup sweep, and main enters its select loop.
MainStart ==
    /\ mainpc = "fetch"
    /\ FetchOk(fetch)
    /\ mainpc' = "loop"
    /\ fetch' = IdleFetch
    /\ serverUp' = TRUE
    /\ refreshpc' = "sleep"
    /\ sweeps' = sweeps + 1
    /\ unsealAll(sweeps + 1)
    /\ UNCHANGED <<drained, cancelled, envVars, keys, installed, nRefresh, refreshLog, bw, working,
                   counterVars, readyN>>

\* case <-ticker.C: u.unsealAll(ctx)
MainTick ==
    /\ mainpc = "loop"
    /\ sweeps < MaxSweeps
    /\ sweeps' = sweeps + 1
    /\ unsealAll(sweeps + 1)
    /\ UNCHANGED <<mainpc, serverUp, drained, cancelled, envVars, fetchVars,
                   refreshpc, nRefresh, refreshLog, bw, working, counterVars, readyN>>

\* The number of sweeps that have goroutines counted in u.wg.
OutstandingSweeps ==
    Cardinality({s \in 1..MaxSweeps :
                    \E t \in Targets : task[<<s, t>>].pc \notin {"idle", "done"}})

\* case <-sig: cancel(), then main blocks in u.wg.Wait().  (The case
\* <-ctx.Done() of the same select does the same wait and shutdown; only this
\* case ever cancels ctx, so it is the one that is taken.)
MainSignal ==
    /\ mainpc = "loop"
    /\ mainpc' = "wait"
    /\ cancelled' = TRUE
    /\ drained' = OutstandingSweeps
    /\ UNCHANGED <<serverUp, sweeps, envVars, fetchVars, refreshpc, nRefresh, refreshLog, bw,
                   working, wg, counterVars, task, readyN>>

\* u.wg.Wait() returns
MainWait ==
    /\ mainpc = "wait"
    /\ WaitDone(wg)
    /\ mainpc' = "shutdown"
    /\ UNCHANGED <<serverUp, drained, cancelled, sweeps, envVars, fetchVars,
                   refreshpc, nRefresh, refreshLog, bw, working, wg, counterVars, task, readyN>>

\* u.healthServer.Shutdown(shutdownCtx); return
MainShutdown ==
    /\ mainpc = "shutdown"
    /\ mainpc' = "exited"
    /\ serverUp' = FALSE
    /\ UNCHANGED <<drained, cancelled, sweeps, envVars, fetchVars, refreshpc,
                   nRefresh, refreshLog, bw, working, wg, counterVars, task, readyN>>

\* ------------------------------------------------------ operational surface
\* A request to the health server is answered: main has started the server
\* (u.initHealthServer(); go u.startHealthServer()) and has not shut it down.
ReadyServed == Running /\ serverUp

\* The /ready handler: ready := len(u.keys) > 0 under the read lock
ReadyHandler ==
    /\ ReadyServed
    /\ readyN' = Len(keys)
    /\ UNCHANGED <<mainVars, envVars, fetchVars, refreshpc, nRefresh, refreshLog, bw, working, wg,
                   counterVars, task>>

ReadyStatusFlipped(n) == IF n > 0 THEN 503 ELSE 200

\* if !ready { w.WriteHeader(503) }
ReadyStatus(n) == IF n > 0 THEN 200 ELSE 503

\* ------------------------------------------------------------ specification
\* main up to and including the startup sweep
StartStep ==
    \/ MainInitClient
    \/ MainFetchFailed
    \/ MainStart

\* main from the signal on
StopStep ==
    \/ MainSignal
    \/ MainWait
    \/ MainShutdown

MainStep ==
    \/ StartStep
    \/ StopStep

\* doFetchKeys, called by main or by keyRefreshLoop
FetchStep ==
    \/ FetchGet
    \/ FetchRelogin
    \/ FetchStore

\* keyRefreshLoop
RefreshStep ==
    \/ RefreshTick
    \/ RefreshDone
    \/ RefreshPanic
    \/ RefreshStop

\* the goroutines started by unsealAll
TaskStep ==
    \/ \E x \in TaskIds : Acquire(x)
    \/ \E x \in TaskIds : Health(x)
    \/ \E x \in TaskIds : ReadKeys(x)
    \/ \E x \in TaskIds : Reprobe(x)
    \/ \E x \in TaskIds : Submit(x)
    \/ \E x \in TaskIds : BackoffTimer(x)
    \/ \E x \in TaskIds : BackoffCancel(x)
    \/ \E x \in TaskIds : Panic(x)
    \/ \E x \in TaskIds : Release(x)
    \/ \E x \in TaskIds : Recover(x)
    \/ \E x \in TaskIds : WgDone(x)

\* the goroutines of the first vault, when nothing faults and nothing is
\* cancelled (those of the other vaults are not scheduled meanwhile)
FirstVaultTasks == {x \in TaskIds : x[2] = 1}

TaskStepQuiet ==
    \/ \E x \in FirstVaultTasks : Acquire(x)
    \/ \E x \in FirstVaultTasks : Health(x)
    \/ \E x \in FirstVaultTasks : ReadKeys(x)
    \/ \E x \in FirstVaultTasks : Reprobe(x)
    \/ \E x \in FirstVaultTasks : Submit(x)
    \/ \E x \in FirstVaultTasks : BackoffTimer(x)
    \/ \E x \in FirstVaultTasks : Release(x)
    \/ \E x \in FirstVaultTasks : WgDone(x)

\* the goroutines of the first vault
TaskStepFirst ==
    \/ TaskStepQuiet
    \/ \E x \in FirstVaultTasks : BackoffCancel(x)
    \/ \E x \in FirstVaultTasks : Panic(x)
    \/ \E x \in FirstVaultTasks : Recover(x)

\* the goroutines of every vault, when nothing faults and nothing is cancelled
TaskStepCalm ==
    \/ \E x \in TaskIds : Acquire(x)
    \/ \E x \in TaskIds : Health(x)
    \/ \E x \in TaskIds : ReadKeys(x)
    \/ \E x \in TaskIds : Reprobe(x)
    \/ \E x \in TaskIds : Submit(x)
    \/ \E x \in TaskIds : BackoffTimer(x)
    \/ \E x \in TaskIds : Release(x)
    \/ \E x \in TaskIds : WgDone(x)

\* the goroutines of the sweeps when no vault is ever sealed
TaskStepUnsealed ==
    \/ \E x \in TaskIds : Acquire(x)
    \/ \E x \in TaskIds : Health(x)
    \/ \E x \in TaskIds : BackoffTimer(x)
    \/ \E x \in TaskIds : BackoffCancel(x)
    \/ \E x \in TaskIds : Panic(x)
    \/ \E x \in TaskIds : Release(x)
    \/ \E x \in TaskIds : Recover(x)
    \/ \E x \in TaskIds : WgDone(x)

\* The whole program.
Next ==
    \/ MainStep
    \/ MainTick
    \/ FetchStep
    \/ RefreshStep
    \/ Rotate
    \/ ReadyHandler
    \/ TaskStep

Spec == Init /\ [][Next]_vars

\* The guarded runs of the startup sweep up to shutdown: the poll interval and
\* the refresh hour do not elapse.
NextRun ==
    \/ MainStep
    \/ FetchStep
    \/ RefreshStop
    \/ TaskStep

SpecRun == InitRun /\ [][NextRun]_vars

\* The steps of one goroutine started by unsealAll, faults apart.
TaskRun(x) ==
    \/ Acquire(x)
    \/ Health(x)
    \/ ReadKeys(x)
    \/ Reprobe(x)
    \/ Submit(x)
    \/ BackoffTimer(x)
    \/ BackoffCancel(x)
    \/ Release(x)
    \/ Recover(x)
    \/ WgDone(x)

\* The same runs when every goroutine that can take a step is scheduled in
\* the end and every request returns: the goroutines of the sweeps go on, and
\* so does main from u.wg.Wait() to its return.
SpecRunFair ==
    /\ InitRun
    /\ [][NextRun]_vars
    /\ \A x \in TaskIds : WF_vars(TaskRun(x))
    /\ WF_vars(MainWait)
    /\ WF_vars(MainShutdown)

\* The in-flight guard of one vault under overlapping sweeps, up to the
\* cancellation: the runs against the first vault are followed through every
\* outcome, while the refresh hour does not elapse.
NextGuard ==
    \/ StartStep
    \/ MainTick
    \/ MainSignal
    \/ FetchStep
    \/ RefreshStop
    \/ TaskStepFirst

SpecGuard == InitRun /\ [][NextGuard]_vars

\* Overlapping sweeps and shutdown, while no vault is sealed and the refresh
\* hour does not elapse.
NextSweep ==
    \/ MainStep
    \/ MainTick
    \/ FetchStep
    \/ RefreshStop
    \/ TaskStepUnsealed

SpecSweep == InitSweep /\ [][NextSweep]_vars

\* The runs of successive sweeps against all the vaults at once, each run
\* taking its attempts to their end: no fault, no shutdown, and the refresh
\* hour does not elapse.
NextCount ==
    \/ StartStep
    \/ MainTick
    \/ FetchStep
    \/ TaskStepCalm

SpecCount == InitCount /\ [][NextCount]_vars

\* The key cache under refresh, rotation and readers (the run of the startup
\* sweep against the first vault, the /ready handler), before any shutdown.
NextRefresh ==
    \/ StartStep
    \/ FetchStep
    \/ RefreshTick
    \/ RefreshDone
    \/ RefreshPanic
    \/ Rotate
    \/ ReadyHandler
    \/ TaskStepQuiet

SpecRefresh == InitRefresh /\ [][NextRefresh]_vars


\* ------------------------------------------------------------------ claims
\* The task holds the guard of its vault: it is between its successful
\* LoadOrStore and its Delete.
Held(x) == task[x].pc \in GuardedPcs

SameVault(x, y) == x # y /\ x[2] = y[2]

SuccessResults == {"accept", "quorum", "unsealed"}

\* C1: for every vault, under overlapping sweeps, at most one task is between
\* a successful LoadOrStore on the vault and the matching Delete.
C1_MutualExclusion ==
    \A x, y \in TaskIds : SameVault(x, y) => ~(Held(x) /\ Held(y))

\* A task of one sweep holds the guard while the task of another sweep for the
\* same vault has been turned away.
C1_Witness ==
    \E x, y \in TaskIds :
        SameVault(x, y) /\ Held(x) /\ task[y].pc = "wgdone" /\ task[y].res = "skip"

\* C2: every snapshot a reader obtains (the key loop of unseal, the /ready
\* handler) is a whole key sequence installed by one completed refresh, the one
\* before or the one after, and so is the cache itself at every instant.
C2_SnapshotAtomic ==
    /\ \A x \in TaskIds : task[x].snap # <<>> => task[x].snap \in installed
    /\ readyN # -1 => \E s \in installed : Len(s) = readyN
    /\ mainpc = "loop" => keys \in installed

\* A run still holds the sequence it read before a refresh replaced the cache
\* by a different one.
C2_Witness ==
    \E x \in TaskIds :
        /\ task[x].pc \in {"reprobe", "submit"}
        /\ task[x].snap # keys
        /\ task[x].snap \in installed
        /\ keys \in installed
        /\ readyN = NumKeys

\* C3: a refresh that has ended in an error has left the cache equal to its
\* value when the refresh started.
C3_FailedRefreshKeepsCache ==
    fetch.pc = "failed" => keys = fetch.pre

\* An hourly refresh fails in its second pass, after a re-login, with three
\* keys already fetched, while the cache holds the keys of the first fetch.
C3_Witness ==
    /\ fetch.pc = "failed"
    /\ refreshpc = "run"
    /\ fetch.relogins = 1
    /\ Len(fetch.local) = NumKeys - 1
    /\ Len(keys) = NumKeys

\* C4: whenever no task is inside the guarded section for a vault, the vault is
\* not in the in-flight set, however the last holder ended.
C4_GuardReleased ==
    \A t \in Targets :
        (\A x \in TaskIds : x[2] = t => ~Held(x)) => t \notin working

\* The holder of an earlier sweep ended by a fault, and the task of a later
\* sweep has acquired the guard of the same vault.
C4_Witness ==
    \E x, y \in TaskIds :
        /\ SameVault(x, y)
        /\ x[1] < y[1]
        /\ task[x].pc = "wgdone"
        /\ task[x].res = "panic"
        /\ Held(y)

\* C5: once main has left u.wg.Wait() (health-server shutdown begun, or the
\* process exited), no vault is in the in-flight set and no sweep task is
\* running.
C5_DrainBeforeExit ==
    mainpc \in {"shutdown", "exited", "fatal"} =>
        /\ working = {}
        /\ wg = 0
        /\ \A x \in TaskIds : task[x].pc \in {"idle", "done"}

\* The process has exited after a cancellation issued while tasks of more than
\* one sweep were outstanding.
C5_Witness ==
    /\ mainpc = "exited"
    /\ drained > 1

\* C6: a guarded run against a vault that answered 503 to every probe and
\* "still sealed" to every submission, not cut short by a cancellation or a
\* fault, has made 3 attempts with waits of 1 and then 2 between them; no task
\* waits after its third attempt.
C6_ThreeAttemptsTwoWaits ==
    \A x \in TaskIds :
        /\ (task[x].scen /\ task[x].pc = "release" /\ task[x].res \notin {"cancel", "panic"})
             => /\ task[x].res = "fail"
                /\ task[x].i = 2
                /\ task[x].waits = <<1, 2>>
                /\ Len(task[x].sent) = NumKeys
        /\ task[x].pc = "backoff" => task[x].i < 2 /\ Len(task[x].waits) = task[x].i

C6_Witness ==
    \E x \in TaskIds :
        /\ task[x].scen
        /\ task[x].pc = "release"
        /\ task[x].res = "fail"
        /\ task[x].waits = <<1, 2>>

\* C7: a guarded run adds 1 to failures exactly when its third attempt has
\* failed (or a fault was recovered), nothing while attempts remain or when an
\* attempt succeeded, never more than 1, and never to both successes and
\* failures.
C7_FailuresOncePerRun ==
    \A x \in TaskIds :
        /\ task[x].dFail <= 1
        /\ ~(task[x].dSuc > 0 /\ task[x].dFail > 0)
        /\ task[x].pc \in UnsealPcs \cup {"backoff"} => task[x].dFail = 0
        /\ (task[x].pc = "release" /\ task[x].res = "fail")
             => task[x].dFail = 1 /\ task[x].i = 2
        /\ (task[x].pc = "release" /\ task[x].res # "fail") => task[x].dFail = 0
        /\ (task[x].pc = "wgdone" /\ task[x].res \in SuccessResults \cup {"cancel", "skip"})
             => task[x].dFail = 0

\* The only run against a sealed or failing vault has failed three times and
\* the counter stands at 1.
C7_Witness ==
    \E x \in TaskIds :
        /\ task[x].pc = "release"
        /\ task[x].res = "fail"
        /\ task[x].i = 2
        /\ task[x].dFail = 1
        /\ failures = 1

\* C8 as stated: in a run where every probe answered 503 and every submission
\* "still sealed", attempts has increased by exactly 1 and failures by 1.
C8_Original ==
    \A x \in TaskIds :
        (task[x].scen /\ task[x].pc = "release" /\ task[x].res = "fail")
            => task[x].dAtt = 1 /\ task[x].dFail = 1

\* C8 amended: in such a run attempts has increased by exactly 3, once per
\* outer attempt, and failures by exactly 1.
C8_AttemptsPerOuterAttempt ==
    \A x \in TaskIds :
        (task[x].scen /\ task[x].pc = "release" /\ task[x].res = "fail")
            => task[x].dAtt = 3 /\ task[x].dFail = 1

C8_Witness ==
    \E x \in TaskIds :
        /\ task[x].scen
        /\ task[x].pc = "release"
        /\ task[x].res = "fail"
        /\ attempts = 3
        /\ failures = 1

\* C9: an attempt that ends because the submission of the key at index k
\* answered sealed=false has submitted exactly the keys 0..k of its snapshot,
\* in order, and has added 1 to attempts, 1 to successes and 0 to failures.
C9_SubmitsUpToK ==
    \A x \in TaskIds :
        (task[x].pc = "release" /\ task[x].res = "unsealed")
            => /\ task[x].k \in 0..(NumKeys - 1)
               /\ task[x].sent = SubSeq(task[x].snap, 1, task[x].k + 1)
               /\ Len(task[x].sent) = task[x].k + 1
               /\ task[x].aAtt = 1
               /\ task[x].aSuc = 1
               /\ task[x].dFail = 0

\* The last key of the snapshot is the one that unsealed the vault.
C9_Witness ==
    \E x \in TaskIds :
        /\ task[x].pc = "release"
        /\ task[x].res = "unsealed"
        /\ task[x].k = NumKeys - 1
        /\ Len(task[x].sent) = NumKeys

\* C10: an attempt whose first probe answered 200, 429, 472 or 473 has ended
\* successfully with no submission, no further probe and no counter changed;
\* when it is the first attempt of the run, the run has changed no counter and
\* has not waited.
C10_AcceptableProbeNoAction ==
    \A x \in TaskIds :
        task[x].code \in {200, 429, 472, 473}
            => /\ task[x].pc = "release"
               /\ task[x].res = "accept"
               /\ task[x].sent = <<>>
               /\ task[x].probes = 1
               /\ task[x].aAtt = 0
               /\ task[x].aSuc = 0
               /\ task[x].dSuc = 0
               /\ task[x].dFail = 0
               /\ task[x].i = 0 => task[x].dAtt = 0 /\ task[x].waits = <<>>

C10_Witness ==
    \E x \in TaskIds :
        /\ task[x].code = 429
        /\ task[x].i = 0
        /\ task[x].pc = "release"
        /\ task[x].res = "accept"
        /\ attempts = 0
        /\ successes = 0
        /\ failures = 0

\* C11: one refresh performs at most 1 re-login and at most 2 passes over the
\* key identifiers: a re-login is only entered from the first pass, a second
\* pass only follows a re-login and does not allow another, and an
\* authentication failure in the second pass ends the refresh in an error.
C11_OneReloginTwoPasses ==
    /\ fetch.relogins <= 1
    /\ fetch.passes <= 2
    /\ fetch.pc = "relogin" => fetch.allow /\ fetch.relogins = 0 /\ fetch.passes = 1
    /\ fetch.passes = 2 => fetch.relogins = 1 /\ ~fetch.allow
    /\ (fetch.passes = 2 /\ fetch.err = "unauthorized") => fetch.pc = "failed"

\* An hourly refresh has ended in the error of a second authentication
\* failure, met in its second pass after two keys had been fetched again.
C11_Witness ==
    /\ refreshpc = "run"
    /\ fetch.pc = "failed"
    /\ fetch.err = "unauthorized"
    /\ fetch.passes = 2
    /\ fetch.relogins = 1
    /\ fetch.i = 3

\* C12 as stated: every answer of /ready agrees with the cache, the endpoint
\* answers 503 in every state before the first successful key fetch, and 200
\* in every state after it.
C12_Original ==
    /\ readyN # -1 => ((ReadyStatus(readyN) = 200) <=> (Len(keys) > 0))
    /\ (Running /\ installed = {}) => ReadyServed /\ ReadyStatus(Len(keys)) = 503
    /\ (Running /\ installed # {}) => ReadyServed /\ ReadyStatus(Len(keys)) = 200

\* C12 amended: /ready is served only once the initial key fetch has
\* succeeded; before that no request is answered, and from then on the cache
\* holds at least one key and every answer is 200, in agreement with the
\* cache.  No reachable state serves the endpoint with an empty cache.
C12_ReadyOnlyAfterFetch ==
    /\ installed = {} => ~ReadyServed /\ readyN = -1
    /\ ReadyServed => Len(keys) > 0 /\ ReadyStatus(Len(keys)) = 200
    /\ readyN # -1 => readyN = Len(keys) /\ ReadyStatus(readyN) = 200

\* /ready has answered 200 and an hourly refresh has since failed: the answer
\* still agrees with the cache.
C12_Witness ==
    /\ ReadyServed
    /\ readyN = Len(keys)
    /\ ReadyStatus(readyN) = 200
    /\ refreshpc = "run"
    /\ fetch.pc = "failed"
    /\ fetch.err = "empty"

\* C13: a run that is in its backoff sleep once the cancellation is set
\* (whether it was set during the sleep or before the run reached it) takes
\* one step only, the return: no further outer attempt and no wait are
\* started, and neither that step nor the rest of the run changes failures
\* (nor any other counter).
C13_CancelEndsRun ==
    [][
        \A x \in TaskIds :
            /\ (task[x].pc = "backoff" /\ cancelled /\ task'[x] # task[x])
                 => /\ task'[x].pc = "release"
                    /\ task'[x].res = "cancel"
                    /\ task[x].i < MaxAttempts - 1
                    /\ task'[x].i = task[x].i
                    /\ task'[x].waits = task[x].waits
                    /\ task'[x].dFail = 0
                    /\ failures' = failures
                    /\ attempts' = attempts
                    /\ successes' = successes
            /\ (task[x].res = "cancel" /\ task'[x] # task[x])
                 => /\ task'[x].pc \in {"wgdone", "done"}
                    /\ task'[x].dFail = 0
                    /\ failures' = failures
    ]_vars

\* The cancellation reached a run waiting after its second failed attempt: the
\* run has returned with one wait done, and failures is still 0.
C13_Witness ==
    \E x \in TaskIds :
        /\ cancelled
        /\ task[x].pc = "release"
        /\ task[x].res = "cancel"
        /\ task[x].i = 1
        /\ task[x].waits = <<1>>
        /\ task[x].dFail = 0
        /\ failures = 0

\* C14: a fault inside a guarded run touches nothing but its own task: the
\* step of the fault and the steps that end the faulted task leave main and
\* every other task as they are; the task gives up its vault's guard, then
\* adds exactly 1 to failures (the only failure the run counts), then leaves
\* the wait group, changing neither attempts nor successes.
C14_FaultContained ==
    [][
        \A x \in TaskIds :
            /\ (task[x].res # "panic" /\ task'[x].res = "panic")
                 => /\ task'[x].pc = "release"
                    /\ task'[x].dFail = 0
                    /\ mainpc' = mainpc
                    /\ \A y \in TaskIds \ {x} : task'[y] = task[y]
                    /\ working' = working
                    /\ wg' = wg
                    /\ <<attempts, successes, failures>>' = <<attempts, successes, failures>>
            /\ (task[x].res = "panic" /\ task'[x] # task[x])
                 => /\ mainpc' = mainpc
                    /\ \A y \in TaskIds \ {x} : task'[y] = task[y]
                    /\ <<attempts, successes>>' = <<attempts, successes>>
                    /\ task[x].pc = "release"
                         => /\ task'[x].pc = "recover"
                            /\ working' = working \ {x[2]}
                            /\ failures' = failures
                    /\ task[x].pc = "recover"
                         => /\ task'[x].pc = "wgdone"
                            /\ task'[x].dFail = 1
                            /\ failures' = failures + 1
                    /\ task[x].pc = "wgdone"
                         => /\ task'[x].pc = "done"
                            /\ wg' = wg - 1
                            /\ failures' = failures
    ]_vars

\* The run against the first vault faulted in its second attempt, after both
\* attempts had been counted, and has been counted as one failure; the
\* process is in its loop and the task of the same sweep for another vault
\* has found its vault unsealed.
C14_Witness ==
    /\ mainpc = "loop"
    /\ ~cancelled
    /\ attempts = 2
    /\ failures = 1
    /\ task[<<1, 1>>].pc = "wgdone"
    /\ task[<<1, 1>>].res = "panic"
    /\ task[<<1, 1>>].dFail = 1
    /\ 1 \notin working
    /\ task[<<1, 2>>].pc = "release"
    /\ task[<<1, 2>>].res = "accept"

\* C15: a task that tries the guard of a vault already in u.working returns
\* in that one step: it has made no probe and no submission, no counter has
\* changed, and u.working is as it was, the vault still in it; all that is
\* left to the task is to leave the wait group, which changes neither the
\* counters nor u.working.
C15_SkipLeavesAllInPlace ==
    [][
        \A x \in TaskIds :
            /\ (task[x].pc = "acquire" /\ x[2] \in working /\ task'[x] # task[x])
                 => /\ task'[x].pc = "wgdone"
                    /\ task'[x].res = "skip"
                    /\ task'[x].probes = 0
                    /\ task'[x].sent = <<>>
                    /\ task'[x].code = NoCode
                    /\ working' = working
                    /\ x[2] \in working'
                    /\ <<attempts, successes, failures>>' = <<attempts, successes, failures>>
                    /\ \A y \in TaskIds \ {x} : task'[y] = task[y]
            /\ (task[x].res = "skip" /\ task'[x] # task[x])
                 => /\ task[x].pc = "wgdone"
                    /\ task'[x].pc = "done"
                    /\ wg' = wg - 1
                    /\ working' = working
                    /\ <<attempts, successes, failures>>' = <<attempts, successes, failures>>
    ]_vars

\* The task of a later sweep has been turned away, while the run it met is
\* still in the in-flight set, waiting between two attempts after one counted
\* attempt.
C15_Witness ==
    \E x, y \in TaskIds :
        /\ SameVault(x, y)
        /\ x[1] < y[1]
        /\ task[y].pc = "wgdone"
        /\ task[y].res = "skip"
        /\ task[y].probes = 0
        /\ task[x].pc = "backoff"
        /\ x[2] \in working
        /\ attempts = 1
        /\ successes = 0
        /\ failures = 0

\* C16: while main has not got past the initial fetch, and when it has exited
\* because the client or the fetch failed, no sweep was ever started: every
\* task is unstarted, nothing is in flight and no counter has moved.  A sweep
\* exists only once a fetch has installed all the keys, and main is never in
\* its select loop (where the ticks arrive) without the startup sweep started.
C16_NoSweepBeforeKeys ==
    /\ mainpc \in {"init", "fetch", "fatal"}
         => /\ sweeps = 0
            /\ \A x \in TaskIds : task[x].pc = "idle"
            /\ wg = 0
            /\ working = {}
            /\ attempts = 0 /\ successes = 0 /\ failures = 0
    /\ sweeps > 0 => installed # {} /\ Len(keys) = NumKeys
    /\ (\E x \in TaskIds : task[x].pc # "idle") => Len(keys) = NumKeys
    /\ mainpc \in {"loop", "wait", "shutdown", "exited"}
         => /\ sweeps >= 1
            /\ \A x \in TaskIds : x[1] = 1 => task[x].pc # "idle"

\* The initial fetch has just succeeded: main is in its loop with the startup
\* sweep started for every vault, no task of it has run yet, and no tick has
\* started a second sweep.
C16_Witness ==
    /\ mainpc = "loop"
    /\ sweeps = 1
    /\ Len(keys) = NumKeys
    /\ wg = NumTargets
    /\ \A x \in TaskIds : task[x].pc = IF x[1] = 1 THEN "acquire" ELSE "idle"

\* C17: in the key loop one health probe precedes each key of index 1 or
\* more and none precedes the key of index 0.  When such a probe answered 200,
\* 429, 472 or 473 the attempt has ended in success with successes + 1 and
\* only the keys before that index submitted; when it answered anything else
\* or failed in transport, the key of that index is the next thing submitted.
C17_ReprobeBeforeLaterKeys ==
    \A x \in TaskIds :
        /\ task[x].pc = "reprobe"
             => /\ task[x].k >= 1
                /\ task[x].probes = task[x].k
                /\ Len(task[x].sent) = task[x].k
        /\ task[x].pc = "submit"
             => /\ task[x].probes = 1 + task[x].k
                /\ Len(task[x].sent) = task[x].k
                /\ task[x].k = 0 => task[x].rcode = NoCode
                /\ task[x].k >= 1 => task[x].rcode \in {503, 500, TransportError}
        /\ task[x].rcode \in {200, 429, 472, 473}
             => task[x].pc = "release" /\ task[x].res = "quorum"
        /\ (task[x].pc = "release" /\ task[x].res = "quorum")
             => /\ task[x].k >= 1
                /\ task[x].rcode \in {200, 429, 472, 473}
                /\ task[x].probes = 1 + task[x].k
                /\ task[x].sent = SubSeq(task[x].snap, 1, task[x].k)
                /\ task[x].aSuc = 1
                /\ task[x].dFail = 0

\* The probe before the key of index 2 answered 472 after an earlier one had
\* failed in transport or found the vault sealed: the attempt has ended in
\* success with two keys submitted.
C17_Witness ==
    \E x \in TaskIds :
        /\ task[x].pc = "release"
        /\ task[x].res = "quorum"
        /\ task[x].rcode = 472
        /\ task[x].k = 2
        /\ Len(task[x].sent) = 2
        /\ task[x].probes = 3
        /\ successes = 1

\* C18: after a submission that met a transport error, an undecodable body,
\* or a body whose sealed field is missing or not a boolean, the attempt is
\* still going on with the next key, unless the key was the last of the
\* snapshot.  An attempt that got past its first probe has failed (the run is
\* in its backoff, or has ended in failure or by cancellation) only with every
\* key of the snapshot submitted, none answered sealed=false and no later
\* probe found the vault unsealed; sealed=false always ends it in success.
C18_BadAnswerContinues ==
    \A x \in TaskIds :
        /\ task[x].ans \in {"transport", "garbage", "nofield", "sealed:string"}
             => \/ /\ task[x].pc = "reprobe"
                   /\ task[x].k = Len(task[x].sent)
                   /\ task[x].k < Len(task[x].snap)
                \/ /\ task[x].pc = "backoff"
                      \/ (task[x].pc = "release" /\ task[x].res \in {"fail", "cancel"})
                   /\ task[x].sent = task[x].snap
        /\ ( /\ \/ task[x].pc = "backoff"
                \/ (task[x].pc = "release" /\ task[x].res \in {"fail", "cancel"})
             /\ task[x].code = 503 )
             => /\ task[x].sent = task[x].snap
                /\ Len(task[x].sent) = NumKeys
                /\ task[x].ans \in {"transport", "garbage", "nofield", "sealed:string",
                                    "sealed:true"}
                /\ task[x].aSuc = 0
        /\ task[x].ans = "sealed:false"
             => task[x].pc = "release" /\ task[x].res = "unsealed"

\* The submission of the key of index 2 was answered by a body without a
\* sealed field: the attempt is about to probe for, and then submit, the key
\* of index 3.
C18_Witness ==
    \E x \in TaskIds :
        /\ task[x].pc = "reprobe"
        /\ task[x].ans = "nofield"
        /\ task[x].k = 3
        /\ Len(task[x].sent) = 3
        /\ task[x].aSuc = 0

\* C19: an attempt whose first probe failed in transport or answered a code
\* other than 200, 429, 472, 473 and 503 has failed at once: the run is in its
\* backoff or has ended in failure or by cancellation, with that one probe
\* made, no snapshot read, no key submitted and neither attempts nor
\* successes changed by the attempt.  An attempt is in its key loop, or has
\* submitted a key, only after a first probe that answered 503.
C19_BadFirstProbeFailsAtOnce ==
    \A x \in TaskIds :
        /\ task[x].code \in {500, TransportError}
             => /\ \/ task[x].pc = "backoff"
                   \/ (task[x].pc = "release" /\ task[x].res \in {"fail", "cancel"})
                /\ task[x].probes = 1
                /\ task[x].snap = <<>>
                /\ task[x].sent = <<>>
                /\ task[x].aAtt = 0
                /\ task[x].aSuc = 0
        /\ (task[x].pc \in {"readkeys", "reprobe", "submit"} \/ task[x].sent # <<>>)
             => task[x].code = 503 /\ task[x].aAtt = 1

\* The first attempt of a run found the vault sealed and failed after its
\* keys; the probe of the second attempt failed in transport: the run waits
\* again and attempts is still 1.
C19_Witness ==
    \E x \in TaskIds :
        /\ task[x].pc = "backoff"
        /\ task[x].i = 1
        /\ task[x].code = TransportError
        /\ task[x].sent = <<>>
        /\ task[x].aAtt = 0
        /\ attempts = 1
        /\ successes = 0

\* C20: at every point of an attempt the keys submitted so far are the first
\* keys of the snapshot the attempt read, in the snapshot's order, whatever
\* the cache has become since; the snapshot keeps its length, and an attempt
\* that has run out of keys has submitted exactly the snapshot.
C20_SubmitsFromSnapshot ==
    \A x \in TaskIds :
        /\ Len(task[x].sent) <= Len(task[x].snap)
        /\ task[x].sent = SubSeq(task[x].snap, 1, Len(task[x].sent))
        /\ task[x].snap # <<>> => Len(task[x].snap) = NumKeys
        /\ task[x].pc \in {"reprobe", "submit"} => Len(task[x].sent) = task[x].k
        /\ (task[x].pc \in {"backoff", "release"} /\ task[x].code = 503)
             => task[x].sent = task[x].snap

\* A refresh has replaced the cache by the rotated keys while an attempt was
\* in its key loop: the attempt has since submitted the rest of the keys it
\* had read, all of the earlier version.
C20_Witness ==
    \E x \in TaskIds :
        /\ task[x].pc = "backoff"
        /\ task[x].snap # keys
        /\ Len(keys) = NumKeys
        /\ keys[NumKeys] = SecretValue(2, NumKeys)
        /\ task[x].sent = task[x].snap
        /\ task[x].sent[NumKeys] = SecretValue(1, NumKeys)

\* C21 as stated: a failed hourly refresh does not stop the refresh loop, which
\* stops only on cancellation: as long as main is in its loop and nothing is
\* cancelled, keyRefreshLoop is waiting for its next tick or running a refresh.
C21_Original ==
    (mainpc = "loop" /\ ~cancelled) => refreshpc \in {"sleep", "run"}

\* The hourly refresh before failed in its re-login and left u.bw nil; the
\* refresh of the next tick panicked on it and keyRefreshLoop has returned,
\* with nothing cancelled and the process still running on the keys it had.
C21_Witness ==
    /\ mainpc = "loop"
    /\ ~cancelled
    /\ refreshpc = "dead"
    /\ refreshLog = "panic"
    /\ bw = "nil"
    /\ nRefresh = 2
    /\ Len(keys) = NumKeys

\* C22: a sweep starts one task for every vault in a single step of main,
\* whatever the tasks of earlier sweeps are doing, and touches no other task.
\* A task that tries its guard is turned away exactly when a run for the same
\* vault holds it; otherwise it acquires the guard and goes on to its first
\* probe, whatever runs for other vaults are in flight.
C22_FanOutPerTarget ==
    [][
        /\ sweeps' # sweeps
             => /\ sweeps' = sweeps + 1
                /\ wg' = wg + NumTargets
                /\ \A x \in TaskIds :
                      IF x[1] = sweeps'
                      THEN task[x].pc = "idle" /\ task'[x].pc = "acquire"
                      ELSE task'[x] = task[x]
        /\ \A x \in TaskIds :
              (task[x].pc = "acquire" /\ task'[x] # task[x])
                 => IF \E y \in TaskIds : SameVault(x, y) /\ Held(y)
                    THEN task'[x].res = "skip" /\ working' = working
                    ELSE /\ task'[x].pc = "health"
                         /\ working' = working \cup {x[2]}
    ]_vars

\* The second sweep was started while the run of the first sweep against the
\* first vault was still in flight: its task for the second vault, whose
\* earlier run is over, has acquired the guard and is at its first probe, so
\* runs against both vaults are in flight, and only its task for the first
\* vault was turned away.
C22_Witness ==
    /\ sweeps = 2
    /\ task[<<1, 1>>].pc = "backoff"
    /\ task[<<1, 2>>].pc = "done"
    /\ task[<<2, 1>>].pc = "wgdone"
    /\ task[<<2, 1>>].res = "skip"
    /\ task[<<2, 2>>].pc = "health"
    /\ working = {1, 2}

\* C23: once the cancellation is issued, in the end every sweep task that was
\* started has finished, u.working is empty, the wait of main is over and the
\* process has terminated, whatever the tasks were doing at the cancellation.
C23_DrainTerminates ==
    cancelled ~> ( /\ mainpc = "exited"
                   /\ working = {}
                   /\ wg = 0
                   /\ \A x \in TaskIds : task[x].pc \in {"idle", "done"} )

\* The cancellation has been issued and main is waiting, while a run is in
\* its key loop with two keys submitted and holds its vault's guard.
C23_Witness ==
    \E x \in TaskIds :
        /\ cancelled
        /\ mainpc = "wait"
        /\ task[x].pc = "submit"
        /\ task[x].k = 2
        /\ x[2] \in working
        /\ wg > 0


\* C24: the counters attempts, successes and failures never decrease, and
\* successes never exceeds attempts, whatever the interleaving of the runs of
\* the vaults and of the sweeps: a step that adds to successes adds exactly 1,
\* and is a step of one call of unseal that has already added its 1 to
\* attempts and has not added to successes before; a call adds to attempts at
\* most once and to successes at most once.
C24_CountersOrdered ==
    /\ [](/\ successes <= attempts
          /\ \A x \in TaskIds : /\ task[x].aAtt <= 1
                                /\ task[x].aSuc <= task[x].aAtt
                                /\ task[x].pc # "wgdone" => task[x].dSuc <= task[x].dAtt
                                /\ task[x].dSuc <= 1)
    /\ [][/\ attempts' >= attempts
          /\ successes' >= successes
          /\ failures' >= failures
          /\ successes' # successes =>
                /\ successes' = successes + 1
                /\ attempts' = attempts
                /\ \E x \in TaskIds :
                      /\ task[x].pc \in {"reprobe", "submit"}
                      /\ task[x].aAtt = 1
                      /\ task[x].aSuc = 0
                      /\ task'[x].aSuc = 1
                      /\ \A y \in TaskIds \ {x} : task'[y] = task[y]]_vars

\* The first vault has been unsealed in the second attempt of a run of the
\* second sweep, as it was by the startup sweep, while the second vault, whose
\* first run has failed, is in the key loop of its next run: all three
\* counters have moved.
C24_Witness ==
    /\ task[<<2, 1>>].pc = "release"
    /\ task[<<2, 1>>].res \in {"unsealed", "quorum"}
    /\ task[<<2, 1>>].i = 1
    /\ task[<<2, 1>>].aSuc = 1
    /\ task[<<2, 2>>].pc = "submit"
    /\ task[<<2, 2>>].aAtt = 1
    /\ successes = 2
    /\ failures = 1
    /\ attempts > 5

\* C25: the key cache is either empty, and then no fetch has succeeded yet, or
\* holds exactly 4 keys none of which is the empty string; once it holds 4 keys
\* no step, of a refresh that succeeds, fails or faults, leaves it with fewer,
\* so that the answer of /ready computed from it, once 200, stays 200.
C25_CacheEmptyOrFull ==
    /\ [](\/ keys = <<>> /\ installed = {}
          \/ /\ Len(keys) = NumKeys
             /\ \A i \in 1..NumKeys : keys[i] # EmptyValue
             /\ installed # {})
    /\ [](readyN # -1 => ReadyStatus(readyN) = 200)
    /\ [][/\ Len(keys) = NumKeys => Len(keys') = NumKeys
          /\ ReadyStatus(Len(keys)) = 200 => ReadyStatus(Len(keys')) = 200
          /\ (readyN # -1 /\ ReadyStatus(readyN) = 200) => ReadyStatus(readyN') = 200]_vars

\* After the initial fetch, one hourly refresh has replaced the keys by those
\* of a later version and the next one has failed; /ready, asked since, has
\* found the 4 keys of the later version.
C25_Witness ==
    /\ refreshpc = "sleep"
    /\ nRefresh = 2
    /\ refreshLog = "failed"
    /\ Cardinality(installed) = 2
    /\ Len(keys) = NumKeys
    /\ keys[1] = SecretValue(version, 1)
    /\ version > 1
    /\ readyN = NumKeys
====
